---- MODULE Spec2Model ----
(***************************************************************************)
(* Model of the k8s-cloud-connectors reconciliation controller             *)
(* (yandexObjectStorageReconciler) and of the admission validating         *)
(* handler (validatingHandler).                                            *)
(*                                                                         *)
(* Spec         : the reconciler working on one resource identifier.       *)
(* SpecWebhook  : the validating handler serving admission requests.       *)
(* SpecValidator: the SAKeyValidator called with arbitrary objects.        *)
(***************************************************************************)
EXTENDS Integers, Sequences, FiniteSets, TLC

VARIABLES
    rec,          \* the record held by the k8s store for the identifier, or NoRecord
    external,     \* TRUE iff the bucket exists in the cloud
    calls,        \* phase methods called by the last Reconcile so far, in call order
    result,       \* what the last Reconcile returned, "Running" until it does
    pre,          \* store and cloud state when the last Reconcile called r.Get
    post,         \* store and cloud state when the last Reconcile returned
    getOutcome,   \* what r.Get returned in the last Reconcile
    faults,       \* phase calls that hit an I/O error in the last Reconcile
    okRuns,       \* fault-free Reconciles of the live record since it was created
    rpc,          \* where the Reconcile in flight stands: the call it makes next
    resource,     \* local variable resource of the Reconcile in flight
    interfered,   \* the record was changed by others during the last Reconcile
    handler,      \* the validatingHandler's fields
    inject,       \* the Inject call in progress: the field it stores and the value
    reconfigured, \* for every Handle call: an Inject call ran while it was in flight
    pc,           \* position of every Handle call (one process per call)
    req,          \* the admission.Request of every Handle call
    obj,          \* local obj of every Handle call
    old,          \* local old of every Handle call
    dcalls,       \* payloads every Handle call handed to the decoder
    vcalls,       \* Validator methods called by every Handle call
    resp          \* the admission.Response of every Handle call

rvars == <<rec, external, calls, result, pre, post, getOutcome, faults, okRuns,
          rpc, resource, interfered>>
wvars == <<handler, inject, reconfigured, pc, req, obj, old, dcalls, vcalls, resp>>
vars == <<rvars, wvars>>

(***************************************************************************)
(* Bounds                                                                  *)
(***************************************************************************)
MaxRuns == 3
MaxHandles == 2

(***************************************************************************)
(* The reconciler                                                          *)
(*                                                                         *)
(* One Reconcile invocation is a process: r.Get is one step and every      *)
(* phase call (IsUpdated, Update, Cleanup) is one step, so that the store  *)
(* and its users can act between two blocking calls. Invocations for the   *)
(* identifier are serialised by the controller's work queue.               *)
(***************************************************************************)
FinalizerName == "yos.finalizer"
OtherFinalizer == "foreign.finalizer"

\* No record in the store; also the zero value of the resource variable that
\* Reconcile declares before r.Get fills it.
NoRecord == [exists |-> FALSE, deletionRequested |-> FALSE,
             finalizers |-> {}, status |-> FALSE]

phasesAllocatorFirst == <<"ResourceAllocator", "FinalizerRegistrar">>

\* The configured phase sequence of NewYandexObjectStorageReconciler.
phases == <<"FinalizerRegistrar", "ResourceAllocator">>

Call(m, p, r) == [m |-> m, p |-> p, r |-> r]

St(r, e) == [rec |-> r, external |-> e]

\* Phase.IsUpdated on the object o held by the caller, with the cloud as s.external
PhaseIsUpdated(p, s) ==
    IF p = "FinalizerRegistrar"
    THEN FinalizerName \in s.rec.finalizers
    ELSE s.external

\* Phase.Update: what it makes of the object and of the cloud
PhaseUpdate(p, s) ==
    IF p = "FinalizerRegistrar"
    THEN St([s.rec EXCEPT !.finalizers = @ \cup {FinalizerName}], s.external)
    ELSE St([s.rec EXCEPT !.status = TRUE], TRUE)

\* Phase.Cleanup: what it makes of the object and of the cloud
PhaseCleanup(p, s) ==
    IF p = "FinalizerRegistrar"
    THEN St([s.rec EXCEPT !.finalizers = @ \ {FinalizerName}], s.external)
    ELSE St(s.rec, FALSE)

\* The phase methods that end with an update of the record in the store.
Persists(m, p) ==
    \/ m = "Update"
    \/ m = "Cleanup" /\ p = "FinalizerRegistrar"

\* A phase method called on the local object o while the store holds r and
\* the cloud e: what it returns and what it leaves. f are the calls that hit
\* an I/O error before any effect; stale says that the record was changed by
\* somebody else since the caller read it, which makes the store refuse the
\* caller's update with a conflict (or not-found).
PhaseCall(m, p, o, r, e, f, stale) ==
    LET s == St(o, e)
        n == IF m = "Update" THEN PhaseUpdate(p, s) ELSE PhaseCleanup(p, s)
    IN  IF <<m, p>> \in f
        THEN [r |-> "err", rec |-> r, external |-> e, resource |-> o]
        ELSE IF m = "IsUpdated"
        THEN [r |-> IF PhaseIsUpdated(p, s) THEN "true" ELSE "false",
              rec |-> r, external |-> e, resource |-> o]
        ELSE IF Persists(m, p) /\ stale
        THEN [r |-> "err", rec |-> r, external |-> n.external, resource |-> n.rec]
        ELSE [r |-> "ok", rec |-> IF Persists(m, p) THEN n.rec ELSE r,
              external |-> n.external, resource |-> n.rec]

ContainsString(set, x) == x \in set

mustBeFinalizedZeroTimestamp(r) ==
    ~r.deletionRequested /\ ContainsString(r.finalizers, FinalizerName)

mustBeFinalized(r) ==
    r.deletionRequested /\ ContainsString(r.finalizers, FinalizerName)

\* Where Reconcile goes next: to the call of method m on the i-th loop
\* iteration, or back to its caller with a result.
Goto(i, m) == [m |-> m, i |-> i, result |-> "Running"]
Return(res) == [m |-> "idle", i |-> 0, result |-> res]

cleanupTargetForward(i) == phases[Len(phases) - i + 1]

\* finalize: i counts down from len(r.phases); the loop body cleans
\* r.phases[i-1] (0-based), which is phases[i] here.
cleanupTarget(i) == phases[i]

finalizeNextSkipError(i, r) ==
    IF i - 1 # 0 THEN Goto(i - 1, "Cleanup") ELSE Return("Errored")

finalizeNextFallThrough(i, r) ==
    IF r = "err" THEN Return("Errored")
    ELSE IF i - 1 # 0 THEN Goto(i - 1, "Cleanup")
    ELSE Goto(1, "IsUpdated")

\* finalize and its call site in Reconcile, after the Cleanup of iteration i
\* returned r.
finalizeNext(i, r) ==
    IF r = "err" THEN Return("Errored")
    ELSE IF i - 1 # 0 THEN Goto(i - 1, "Cleanup")
    ELSE Return("Normal")

\* Variants of the phase loop with one deviation v each: "stop" returns after
\* a successful Update, "skiplast" leaves the last phase out, "swallow" goes
\* on after an Update error, "always" calls Update whatever IsUpdated says,
\* "inverted" calls Update on converged phases only.
forwardNextVariant(i, m, r, v) ==
    LET last == IF v = "skiplast" THEN Len(phases) - 1 ELSE Len(phases)
        onward == IF i < last THEN Goto(i + 1, "IsUpdated") ELSE Return("Normal")
        apply == IF v = "always" THEN TRUE
                 ELSE IF v = "inverted" THEN r = "true" ELSE r = "false"
    IN  IF r = "err" /\ ~(v = "swallow" /\ m = "Update") THEN Return("Errored")
        ELSE IF m = "IsUpdated" /\ apply THEN Goto(i, "Update")
        ELSE IF m = "Update" /\ v = "stop" THEN Return("Normal")
        ELSE onward

forwardNextStopAfterApply(i, m, r) == forwardNextVariant(i, m, r, "stop")
forwardNextSkipLast(i, m, r) == forwardNextVariant(i, m, r, "skiplast")
forwardNextSwallowError(i, m, r) == forwardNextVariant(i, m, r, "swallow")
forwardNextAlwaysUpdate(i, m, r) == forwardNextVariant(i, m, r, "always")
forwardNextInverted(i, m, r) == forwardNextVariant(i, m, r, "inverted")

\* The loop "for _, updater := range r.phases" of Reconcile, after method m
\* of the i-th phase returned r.
forwardNext(i, m, r) ==
    IF r = "err" THEN Return("Errored")
    ELSE IF m = "IsUpdated" /\ r = "false" THEN Goto(i, "Update")
    ELSE IF i < Len(phases) THEN Goto(i + 1, "IsUpdated")
    ELSE Return("Normal")

reconcileStartWalkOnGetError(g, r) ==
    IF g = "NotFound" THEN Return("Never")
    ELSE IF g = "Found" /\ mustBeFinalized(r) THEN Goto(Len(phases), "Cleanup")
    ELSE Goto(1, "IsUpdated")

\* Reconcile up to its first phase call: g is what r.Get returned and r the
\* record it loaded.
reconcileStart(g, r) ==
    IF g = "NotFound" THEN Return("Never")
    ELSE IF g = "Error" THEN Return("Errored")
    ELSE IF mustBeFinalized(r) THEN Goto(Len(phases), "Cleanup")
    ELSE Goto(1, "IsUpdated")

Methods == {"IsUpdated", "Update", "Cleanup"}
PhaseSet == {phases[i] : i \in 1..Len(phases)}
FaultSets == SUBSET (Methods \X PhaseSet)

Live(r) == r.exists /\ ~r.deletionRequested

AllConverged(s) == \A i \in 1..Len(phases) : PhaseIsUpdated(phases[i], s)

\* Reconcile is between two calls.
InFlight == rpc.m # "idle"

\* Reconcile is entered and calls r.Get.
ReconcileGet ==
    /\ ~InFlight
    /\ \E g \in (IF rec.exists THEN {"Found", "Error"} ELSE {"NotFound", "Error"}) :
       \E f \in (IF g = "Found" THEN FaultSets ELSE {{}}) :
        LET nx == reconcileStart(g, rec)
        IN  /\ getOutcome' = g
            /\ faults' = f
            /\ resource' = IF g = "Found" THEN rec ELSE NoRecord
            /\ rpc' = [m |-> nx.m, i |-> nx.i]
            /\ result' = nx.result
    /\ calls' = <<>>
    /\ interfered' = FALSE
    /\ pre' = St(rec, external)
    /\ post' = IF rpc'.m = "idle" THEN St(rec, external) ELSE post
    /\ UNCHANGED <<rec, external, okRuns, wvars>>

\* Reconcile makes the phase call it stands before and goes on from what
\* the call returned.
ReconcileCall(m) ==
    /\ LET p == IF m = "Cleanup" THEN cleanupTarget(rpc.i) ELSE phases[rpc.i]
           o == PhaseCall(m, p, resource, rec, external, faults, interfered)
           nx == IF m = "Cleanup" THEN finalizeNext(rpc.i, o.r)
                 ELSE forwardNext(rpc.i, m, o.r)
       IN  /\ rec' = o.rec
           /\ external' = o.external
           /\ resource' = o.resource
           /\ calls' = Append(calls, Call(m, p, o.r))
           /\ rpc' = [m |-> nx.m, i |-> nx.i]
           /\ result' = nx.result
           /\ post' = IF nx.m = "idle" THEN St(o.rec, o.external) ELSE post
           /\ okRuns' = IF nx.result = "Normal" /\ Live(pre.rec) /\ okRuns < MaxRuns
                        THEN okRuns + 1 ELSE okRuns
    /\ UNCHANGED <<pre, getOutcome, faults, interfered, wvars>>

\* isInitialized, err := updater.IsUpdated(ctx, log, &resource)
ReconcileIsUpdated ==
    /\ rpc.m = "IsUpdated"
    /\ ReconcileCall("IsUpdated")

\* updater.Update(ctx, log, &resource)
ReconcileUpdate ==
    /\ rpc.m = "Update"
    /\ ReconcileCall("Update")

\* r.phases[i-1].Cleanup(ctx, log, resource)
ReconcileCleanup ==
    /\ rpc.m = "Cleanup"
    /\ ReconcileCall("Cleanup")

\* A change of the record by somebody else is noticed by the store when a
\* Reconcile in flight next updates the record.
Interference == interfered' = (interfered \/ InFlight)

\* A user creates the resource object.
CreateResource ==
    /\ ~rec.exists
    /\ \E fin \in SUBSET {OtherFinalizer} :
        rec' = [exists |-> TRUE, deletionRequested |-> FALSE,
                finalizers |-> fin, status |-> FALSE]
    /\ okRuns' = 0
    /\ Interference
    /\ UNCHANGED <<external, calls, result, pre, post, getOutcome, faults,
                   rpc, resource, wvars>>

\* A user requests deletion: the store sets the deletion timestamp.
RequestDeletion ==
    /\ Live(rec)
    /\ rec' = [rec EXCEPT !.deletionRequested = TRUE]
    /\ Interference
    /\ UNCHANGED <<external, calls, result, pre, post, getOutcome, faults, okRuns,
                   rpc, resource, wvars>>

\* Another controller removes its own finalizer.
RemoveOtherFinalizer ==
    /\ rec.exists /\ rec.deletionRequested /\ OtherFinalizer \in rec.finalizers
    /\ rec' = [rec EXCEPT !.finalizers = @ \ {OtherFinalizer}]
    /\ Interference
    /\ UNCHANGED <<external, calls, result, pre, post, getOutcome, faults, okRuns,
                   rpc, resource, wvars>>

\* The store reclaims a record under deletion that has no finalizers left.
StoreReclaim ==
    /\ rec.exists /\ rec.deletionRequested /\ rec.finalizers = {}
    /\ rec' = NoRecord
    /\ Interference
    /\ UNCHANGED <<external, calls, result, pre, post, getOutcome, faults, okRuns,
                   rpc, resource, wvars>>

InitReconciler ==
    /\ rec = NoRecord
    /\ external = FALSE
    /\ calls = <<>>
    /\ result = "None"
    /\ pre = St(NoRecord, FALSE)
    /\ post = St(NoRecord, FALSE)
    /\ getOutcome = "None"
    /\ faults = {}
    /\ okRuns = 0
    /\ rpc = [m |-> "idle", i |-> 0]
    /\ resource = NoRecord
    /\ interfered = FALSE

(***************************************************************************)
(* The validating handler                                                  *)
(***************************************************************************)
StatusBadRequest == 400
StatusInternalServerError == 500

\* One process per Handle call.
Procs == 1..MaxHandles

\* Call p has not been entered yet; calls are numbered as they arrive.
Free(p) ==
    /\ pc[p] = "idle"
    /\ \A q \in Procs : q < p => pc[q] # "idle"

Operations == {"CREATE", "UPDATE", "DELETE", "CONNECT"}
ServiceAccountIDs == {"sa1", "sa2"}

\* A raw payload of a request: bytes the decoder rejects, or an encoded object.
Undecodable == [ok |-> FALSE, said |-> ""]
RawObjects == {Undecodable} \cup {[ok |-> TRUE, said |-> x] : x \in ServiceAccountIDs}

\* The requests the API server sends: a create carries no old object and a
\* delete no new one, and decoding an absent payload fails like a bad one.
Requests ==
    {r \in [operation : Operations, object : RawObjects, oldObject : RawObjects] :
        /\ r.operation \in {"CREATE", "CONNECT"} => r.oldObject = Undecodable
        /\ r.operation = "DELETE" => r.object = Undecodable
        /\ r.oldObject.said # "sa2"
        /\ r.operation # "UPDATE" => r.object.said # "sa2"}

ObjectKinds == {"StaticAccessKey", "Other"}
NoObject == [kind |-> "none", said |-> ""]
NoRequest == [operation |-> "", object |-> Undecodable, oldObject |-> Undecodable]

\* runtime.Object.DeepCopyObject
DeepCopyObject(o) == [kind |-> o.kind, said |-> o.said]

\* An error value: the dynamic types along its Unwrap chain, outermost first,
\* and what Error() returns. The nil error has an empty chain.
Nil == [chain |-> <<>>, msg |-> <<>>]
Errorf(m) == [chain |-> <<"errorString">>, msg |-> m]
NewValidationError(e) == [chain |-> <<"ValidationError">> \o e.chain, msg |-> e.msg]
Wrapf(m, e) == [chain |-> <<"wrapError">> \o e.chain, msg |-> m \o e.msg]

\* errors.Is(err, ValidationError{})
RECURSIVE IsValidationError(_)
IsValidationError(e) ==
    IF e.chain = <<>> THEN FALSE
    ELSE IF Head(e.chain) = "ValidationError" THEN TRUE
    ELSE IsValidationError([e EXCEPT !.chain = Tail(@)])

\* admission.Allowed, admission.Denied, admission.Errored
Allowed(reason) == [allowed |-> TRUE, code |-> 200, msg |-> reason]
Denied(reason) == [allowed |-> FALSE, code |-> 403, msg |-> reason]
Errored(code, e) == [allowed |-> FALSE, code |-> code, msg |-> e.msg]
NoResponse == [allowed |-> FALSE, code |-> 0, msg |-> <<>>]

\* decoder.Decode / decoder.DecodeRaw: the error, and the object filled in.
DecodeErr(raw) ==
    IF ~raw.ok THEN Errorf(<<"couldn't get version/kind">>) ELSE Nil
DecodeInto(raw, into) ==
    IF ~raw.ok THEN into ELSE [kind |-> into.kind, said |-> raw.said]

handleValidationErrorNeverDenied(err) ==
    IF err # Nil
    THEN Errored(StatusInternalServerError, err)
    ELSE Allowed(<<>>)

handleValidationError(err) ==
    IF err # Nil
    THEN IF IsValidationError(err)
         THEN Denied(err.msg)
         ELSE Errored(StatusInternalServerError, err)
    ELSE Allowed(<<>>)

NotSAKey == Errorf(<<"object is not of the StaticAccessKey type">>)

\* SAKeyValidator.ValidateCreation
SAKeyValidateCreation(o) ==
    IF o.kind # "StaticAccessKey" THEN NotSAKey ELSE Nil

SAKeyValidateUpdateNoOldCheck(current, prev) ==
    IF current.kind # "StaticAccessKey" THEN NotSAKey
    ELSE IF current.said # prev.said
         THEN NewValidationError(Errorf(
                <<"binded service account must be immutable, was changed from ",
                  prev.said, " to ", current.said>>))
         ELSE Nil

SAKeyValidateUpdatePlainError(current, prev) ==
    IF current.kind # "StaticAccessKey" THEN NotSAKey
    ELSE IF prev.kind # "StaticAccessKey" THEN NotSAKey
    ELSE IF current.said # prev.said
         THEN Errorf(
                <<"binded service account must be immutable, was changed from ",
                  prev.said, " to ", current.said>>)
         ELSE Nil

\* SAKeyValidator.ValidateUpdate
SAKeyValidateUpdate(current, prev) ==
    IF current.kind # "StaticAccessKey" THEN NotSAKey
    ELSE IF prev.kind # "StaticAccessKey" THEN NotSAKey
    ELSE IF current.said # prev.said
         THEN NewValidationError(Errorf(
                <<"binded service account must be immutable, was changed from ",
                  prev.said, " to ", current.said>>))
         ELSE Nil

\* SAKeyValidator.ValidateDeletion
SAKeyValidateDeletion(o) ==
    IF o.kind # "StaticAccessKey" THEN NotSAKey ELSE Nil

\* What an arbitrary implementation of the Validator interface may return.
AnyValidatorReturns ==
    { Nil,
      NewValidationError(Errorf(<<"denied by policy">>)),
      Errorf(<<"lookup failed">>),
      Wrapf(<<"validating: ">>, NewValidationError(Errorf(<<"denied by policy">>))) }

\* The Validator method Handle calls for an operation, and its arguments.
ValidatorMethod(op) ==
    IF op = "CREATE" THEN "ValidateCreation"
    ELSE IF op = "UPDATE" THEN "ValidateUpdate"
    ELSE "ValidateDeletion"

ValidatorArgsOldFirst(op, o, prev) == IF op = "UPDATE" THEN <<prev, o>> ELSE <<o>>

ValidatorArgs(op, o, prev) == IF op = "UPDATE" THEN <<o, prev>> ELSE <<o>>

\* r.validator.<method>(ctx, r.log, args...)
ValidatorReturns(v, m, args) ==
    IF v = "SAKeyValidator"
    THEN { IF m = "ValidateCreation" THEN SAKeyValidateCreation(args[1])
           ELSE IF m = "ValidateUpdate" THEN SAKeyValidateUpdate(args[1], args[2])
           ELSE SAKeyValidateDeletion(args[1]) }
    ELSE AnyValidatorReturns

\* The template object of kind k that InjectObject is given.
Template(k) == [kind |-> k, said |-> ""]

\* What a read of a word-sized or multi-word field finds that is being
\* stored without synchronisation: Torn is a mix of the old and the new value.
Torn == [kind |-> "torn", said |-> ""]
NoInject == [field |-> "none", value |-> "none"]

\* NewValidatingHandler: only log and validator are set.
NewValidatingHandler(m) ==
    [object |-> NoObject, decoder |-> "nil", log |-> "Discard", validator |-> m]

\* The Handle calls that have been entered and have not returned or panicked.
Serving == {p \in Procs : pc[p] \notin {"idle", "done", "panicked"}}

\* An Inject call is entered and begins to store its argument in field f.
\* A call that stores the value the field already holds is left out: no read
\* can tell it from no call.
InjectBegin(f, v) ==
    /\ inject = NoInject
    /\ inject' = [field |-> f, value |-> v]
    /\ reconfigured' = [p \in Procs |-> reconfigured[p] \/ p \in Serving]
    /\ UNCHANGED <<handler, pc, req, obj, old, dcalls, vcalls, resp, rvars>>

\* InjectObject: r.object = obj
InjectObject ==
    \E k \in ObjectKinds :
        /\ handler.object # Template(k)
        /\ InjectBegin("object", k)

\* InjectDecoder: r.decoder = decoder
InjectDecoder ==
    /\ handler.decoder # "injected"
    /\ InjectBegin("decoder", "injected")

\* InjectLogger: r.log = log
InjectLogger ==
    /\ handler.log # "injected"
    /\ InjectBegin("log", "injected")

\* The store has completed and the Inject call returns nil.
InjectReturn ==
    /\ inject # NoInject
    /\ handler' = IF inject.field = "object"
                  THEN [handler EXCEPT !.object = Template(inject.value)]
                  ELSE IF inject.field = "decoder"
                  THEN [handler EXCEPT !.decoder = inject.value]
                  ELSE [handler EXCEPT !.log = inject.value]
    /\ inject' = NoInject
    /\ UNCHANGED <<reconfigured, pc, req, obj, old, dcalls, vcalls, resp, rvars>>

\* r.object as a Handle call reads it: the field, or while InjectObject is
\* storing it the old value, the new one or a torn one.
ReadObject ==
    IF inject.field = "object"
    THEN {handler.object, Template(inject.value), Torn}
    ELSE {handler.object}

\* r.decoder as a Handle call reads it (a pointer: old or new).
ReadDecoder ==
    IF inject.field = "decoder" THEN {handler.decoder, inject.value}
    ELSE {handler.decoder}

\* r.log as a Handle call reads it.
ReadLog ==
    IF inject.field = "log" THEN {handler.log, inject.value, "torn"}
    ELSE {handler.log}

\* A method call on the object read panics: nil interface or torn value.
Unusable(o) == o.kind \in {"none", "torn"}

\* How a Decode / DecodeRaw call on decoder d ends: without a decoder the
\* call panics when it reaches the codecs, which it does not for every
\* payload it rejects.
DecodeOutcomes(d, raw) ==
    IF d = "nil"
    THEN IF raw.ok THEN {"panic"} ELSE {"panic", "err"}
    ELSE IF DecodeErr(raw) # Nil THEN {"err"} ELSE {"ok"}

\* Handle, line 49: a request arrives and obj becomes a copy of the template.
HandleStart(p) ==
    /\ Free(p)
    /\ \E r \in Requests : req' = [req EXCEPT ![p] = r]
    /\ \E t \in ReadObject :
        IF Unusable(t)
        THEN /\ obj' = [obj EXCEPT ![p] = NoObject]
             /\ pc' = [pc EXCEPT ![p] = "panicked"]
        ELSE /\ obj' = [obj EXCEPT ![p] = DeepCopyObject(t)]
             /\ pc' = [pc EXCEPT ![p] = "switch"]
    /\ old' = [old EXCEPT ![p] = NoObject]
    /\ dcalls' = [dcalls EXCEPT ![p] = <<>>]
    /\ vcalls' = [vcalls EXCEPT ![p] = <<>>]
    /\ resp' = [resp EXCEPT ![p] = NoResponse]
    /\ reconfigured' = [reconfigured EXCEPT ![p] = inject # NoInject]
    /\ UNCHANGED <<handler, inject, rvars>>

DecodeStepIgnoreError(p, field, raw, which, next) ==
    /\ dcalls' = [dcalls EXCEPT ![p] = Append(@, field)]
    /\ pc' = [pc EXCEPT ![p] = next]
    /\ resp' = resp
    /\ IF which = "obj"
       THEN obj' = [obj EXCEPT ![p] = DecodeInto(raw, @)]
       ELSE old' = [old EXCEPT ![p] = DecodeInto(raw, @)]

DecodeStepShared(p, field, raw, which, next) ==
    /\ dcalls' = [dcalls EXCEPT ![p] = Append(@, field)]
    /\ \E d \in ReadDecoder : \E o \in DecodeOutcomes(d, raw) :
        /\ pc' = [pc EXCEPT ![p] = IF o = "panic" THEN "panicked"
                                   ELSE IF o = "err" THEN "done" ELSE next]
        /\ resp' = IF o = "err"
                   THEN [resp EXCEPT ![p] = Errored(StatusBadRequest, DecodeErr(raw))]
                   ELSE resp
        /\ IF which = "obj"
           THEN obj' = [q \in Procs |-> IF o = "ok" THEN DecodeInto(raw, obj[p]) ELSE obj[q]]
           ELSE old' = [q \in Procs |-> IF o = "ok" THEN DecodeInto(raw, old[p]) ELSE old[q]]

\* The decoder is handed payload `field` to fill the local `which`: on error
\* the call responds 400 and ends, otherwise it continues at `next`.
DecodeStep(p, field, raw, which, next) ==
    /\ dcalls' = [dcalls EXCEPT ![p] = Append(@, field)]
    /\ \E d \in ReadDecoder : \E o \in DecodeOutcomes(d, raw) :
        /\ pc' = [pc EXCEPT ![p] = IF o = "panic" THEN "panicked"
                                   ELSE IF o = "err" THEN "done" ELSE next]
        /\ resp' = IF o = "err"
                   THEN [resp EXCEPT ![p] = Errored(StatusBadRequest, DecodeErr(raw))]
                   ELSE resp
        /\ IF which = "obj"
           THEN obj' = [obj EXCEPT ![p] = IF o = "ok" THEN DecodeInto(raw, @) ELSE @]
           ELSE old' = [old EXCEPT ![p] = IF o = "ok" THEN DecodeInto(raw, @) ELSE @]

\* case v1.Create: r.decoder.Decode(req, obj)
HandleCreateDecode(p) ==
    /\ pc[p] = "switch" /\ req[p].operation = "CREATE"
    /\ DecodeStep(p, "Object", req[p].object, "obj", "validate")
    /\ UNCHANGED <<handler, inject, reconfigured, req, old, vcalls, rvars>>

\* case v1.Update, line 59: old := r.object.DeepCopyObject()
HandleUpdateCopyOld(p) ==
    /\ pc[p] = "switch" /\ req[p].operation = "UPDATE"
    /\ \E t \in ReadObject :
        IF Unusable(t)
        THEN /\ pc' = [pc EXCEPT ![p] = "panicked"]
             /\ old' = old
        ELSE /\ pc' = [pc EXCEPT ![p] = "update_new"]
             /\ old' = [old EXCEPT ![p] = DeepCopyObject(t)]
    /\ UNCHANGED <<handler, inject, reconfigured, req, obj, dcalls, vcalls, resp, rvars>>

\* case v1.Update, line 60: DecodeRaw(req.Object, obj)
HandleUpdateDecodeNew(p) ==
    /\ pc[p] = "update_new"
    /\ DecodeStep(p, "Object", req[p].object, "obj", "update_old")
    /\ UNCHANGED <<handler, inject, reconfigured, req, old, vcalls, rvars>>

\* case v1.Update: DecodeRaw(req.OldObject, old)
HandleUpdateDecodeOld(p) ==
    /\ pc[p] = "update_old"
    /\ DecodeStep(p, "OldObject", req[p].oldObject, "old", "validate")
    /\ UNCHANGED <<handler, inject, reconfigured, req, obj, vcalls, rvars>>

\* case v1.Delete: DecodeRaw(req.OldObject, obj)
HandleDeleteDecode(p) ==
    /\ pc[p] = "switch" /\ req[p].operation = "DELETE"
    /\ DecodeStep(p, "OldObject", req[p].oldObject, "obj", "validate")
    /\ UNCHANGED <<handler, inject, reconfigured, req, old, vcalls, rvars>>

KnownOperations == {"CREATE", "UPDATE", "DELETE"}

HandleDefaultAsCreate(p) ==
    /\ pc[p] = "switch" /\ req[p].operation \notin KnownOperations
    /\ DecodeStep(p, "Object", req[p].object, "obj", "validate")
    /\ UNCHANGED <<handler, inject, reconfigured, req, old, vcalls, rvars>>

\* default: the operation is none of create, update, delete.
HandleDefault(p) ==
    /\ pc[p] = "switch" /\ req[p].operation \notin KnownOperations
    /\ resp' = [resp EXCEPT ![p] = Errored(StatusBadRequest,
                    Errorf(<<"invalid request operation: ", req[p].operation>>))]
    /\ pc' = [pc EXCEPT ![p] = "done"]
    /\ UNCHANGED <<handler, inject, reconfigured, req, obj, old, dcalls, vcalls, rvars>>

\* The Validator method logs through the logger it is given: SAKeyValidator
\* does once its casts succeeded, another Validator may at any time.
ValidatorLogs(v, args) ==
    v = "SAKeyValidator" => \A i \in 1..Len(args) : args[i].kind = "StaticAccessKey"

\* return handleValidationError(r.validator.ValidateX(ctx, r.log, ...))
HandleValidate(p) ==
    /\ pc[p] = "validate"
    /\ LET m == ValidatorMethod(req[p].operation)
           args == ValidatorArgs(req[p].operation, obj[p], old[p])
       IN \E l \in ReadLog :
            IF l = "torn" /\ ValidatorLogs(handler.validator, args)
            THEN /\ pc' = [pc EXCEPT ![p] = "panicked"]
                 /\ UNCHANGED <<vcalls, resp>>
            ELSE \E e \in ValidatorReturns(handler.validator, m, args) :
                    /\ vcalls' = [vcalls EXCEPT ![p] =
                                    Append(@, [m |-> m, args |-> args, ret |-> e])]
                    /\ resp' = [resp EXCEPT ![p] = handleValidationError(e)]
                    /\ pc' = [pc EXCEPT ![p] = "done"]
    /\ UNCHANGED <<handler, inject, reconfigured, req, obj, old, dcalls, rvars>>

\* The handler as NewValidatingHandler returns it, with no request in flight.
InitHandler(validators) ==
    /\ handler \in {NewValidatingHandler(m) : m \in validators}
    /\ inject = NoInject
    /\ reconfigured = [p \in Procs |-> FALSE]
    /\ pc = [p \in Procs |-> "idle"]
    /\ req = [p \in Procs |-> NoRequest]
    /\ obj = [p \in Procs |-> NoObject]
    /\ old = [p \in Procs |-> NoObject]
    /\ dcalls = [p \in Procs |-> <<>>]
    /\ vcalls = [p \in Procs |-> <<>>]
    /\ resp = [p \in Procs |-> NoResponse]

Init == InitReconciler /\ InitHandler({"SAKeyValidator"})

Next ==
    \/ ReconcileGet
    \/ ReconcileIsUpdated
    \/ ReconcileUpdate
    \/ ReconcileCleanup
    \/ CreateResource
    \/ RequestDeletion
    \/ RemoveOtherFinalizer
    \/ StoreReclaim

Spec == Init /\ [][Next]_vars

InitWebhook == InitReconciler /\ InitHandler({"SAKeyValidator", "AnyValidator"})

NextWebhook ==
    \/ InjectObject
    \/ InjectDecoder
    \/ InjectLogger
    \/ InjectReturn
    \/ \E p \in Procs :
        \/ HandleStart(p)
        \/ HandleCreateDecode(p)
        \/ HandleUpdateCopyOld(p)
        \/ HandleUpdateDecodeNew(p)
        \/ HandleUpdateDecodeOld(p)
        \/ HandleDeleteDecode(p)
        \/ HandleDefault(p)
        \/ HandleValidate(p)

SpecWebhook == InitWebhook /\ [][NextWebhook]_vars

\* Any object a caller can hand to a Validator method as a runtime.Object.
Objects == [kind : ObjectKinds, said : ServiceAccountIDs]

\* A method of SAKeyValidator is called with arbitrary objects and its return
\* is classified by handleValidationError.
ValidateDirect(p) ==
    /\ Free(p)
    /\ \E op \in KnownOperations, o \in Objects :
       \E prev \in (IF op = "UPDATE" THEN Objects ELSE {NoObject}) :
        LET m == ValidatorMethod(op)
            args == ValidatorArgs(op, o, prev)
        IN  \E e \in ValidatorReturns("SAKeyValidator", m, args) :
                /\ obj' = [obj EXCEPT ![p] = o]
                /\ old' = [old EXCEPT ![p] = prev]
                /\ vcalls' = [vcalls EXCEPT ![p] = <<[m |-> m, args |-> args, ret |-> e]>>]
                /\ resp' = [resp EXCEPT ![p] = handleValidationError(e)]
    /\ pc' = [pc EXCEPT ![p] = "done"]
    /\ UNCHANGED <<handler, inject, reconfigured, req, dcalls, rvars>>

NextValidator == \E p \in Procs : ValidateDirect(p)

SpecValidator == Init /\ [][NextValidator]_vars

(***************************************************************************)
(* Properties of the reconciler                                            *)
(***************************************************************************)
Idx(p) == CHOOSE i \in 1..Len(phases) : phases[i] = p

Marker(s) == FinalizerName \in s.rec.finalizers

\* The last Reconcile has returned.
Finished == ~InFlight

\* Nobody but the last Reconcile wrote the record while it ran, and none of
\* its calls hit an I/O error.
Undisturbed == faults = {} /\ ~interfered

\* The last Reconcile loaded the record and found it live.
RanLive == getOutcome = "Found" /\ ~pre.rec.deletionRequested

\* The last Reconcile loaded the record and found it due for finalization.
RanFinalizing == getOutcome = "Found" /\ pre.rec.deletionRequested /\ Marker(pre)

\* Positions of the calls of method m in the last Reconcile.
Pos(m) == {j \in 1..Len(calls) : calls[j].m = m}

\* C1 as stated: in one Reconcile of a live resource at most one Update is
\* called, and a successful Update is the last call of the invocation.
C1_AtMostOneApply ==
    (Finished /\ RanLive) =>
        /\ Cardinality(Pos("Update")) <= 1
        /\ \A j \in Pos("Update") : calls[j].r = "ok" => j = Len(calls)

\* C1 amended: in one Reconcile of a live resource every phase has Update
\* called at most once, exactly when its IsUpdated returned false just before;
\* a successful Update does not end the walk: the next phase's IsUpdated
\* follows it. When no call hits an error and nobody else writes the record
\* meanwhile, a record without the marker and without the bucket gets both
\* the marker and the bucket in that one invocation, and a converged record
\* gets no Update.
C1_ApplyEveryNonConverged ==
    RanLive =>
        /\ \A j \in Pos("Update") :
                /\ j > 1
                /\ calls[j - 1] = Call("IsUpdated", calls[j].p, "false")
                /\ \A k \in Pos("Update") : calls[k].p = calls[j].p => k = j
        /\ Finished =>
            /\ \A j \in Pos("IsUpdated") :
                    calls[j].r = "false" => j < Len(calls) /\ calls[j + 1].m = "Update"
                                            /\ calls[j + 1].p = calls[j].p
            /\ \A j \in Pos("Update") :
                    calls[j].r = "ok" /\ Idx(calls[j].p) < Len(phases) =>
                        /\ j < Len(calls)
                        /\ calls[j + 1].m = "IsUpdated"
                        /\ calls[j + 1].p = phases[Idx(calls[j].p) + 1]
            /\ (Undisturbed /\ ~Marker(pre) /\ ~pre.external) =>
                    /\ calls = <<Call("IsUpdated", "FinalizerRegistrar", "false"),
                                 Call("Update", "FinalizerRegistrar", "ok"),
                                 Call("IsUpdated", "ResourceAllocator", "false"),
                                 Call("Update", "ResourceAllocator", "ok")>>
                    /\ Marker(post) /\ post.external
            /\ (Undisturbed /\ AllConverged(pre)) => Pos("Update") = {} /\ post = pre

\* A Reconcile of a live record without marker and bucket applied both phases.
C1_Witness ==
    /\ Finished /\ RanLive /\ ~Marker(pre) /\ ~pre.external
    /\ Cardinality({j \in Pos("Update") : calls[j].r = "ok"}) = 2

\* C2: a Reconcile that loads a record with deletion requested and without
\* the finalizer marker calls no phase method, returns no error and leaves
\* the record and the bucket as they were.
C2_NoPhaseOnDeletingWithoutMarker ==
    (Finished /\ getOutcome = "Found" /\ pre.rec.deletionRequested /\ ~Marker(pre)) =>
        /\ calls = <<>>
        /\ result = "Normal"
        /\ post = pre

\* C3: within one finalize pass the Cleanup calls follow the exact reverse of
\* the configured order: a phase is cleaned only after every later phase's
\* Cleanup was called and returned success.
C3_CleanupReverseOrder ==
    \A j \in Pos("Cleanup") :
        \A b \in (Idx(calls[j].p) + 1)..Len(phases) :
            \E k \in 1..(j - 1) : calls[k] = Call("Cleanup", phases[b], "ok")

\* A finalize pass cleaned the allocator and then the registrar.
C3_Witness ==
    /\ Finished /\ RanFinalizing
    /\ Len(calls) = 2
    /\ calls[1].p = "ResourceAllocator" /\ calls[2].p = "FinalizerRegistrar"

\* The marker leaves the record in this step.
MarkerRemoved == Marker(St(rec, external)) /\ ~Marker(St(rec', external'))

\* The last Reconcile cleaned every phase after the first one with success
\* before it called the first phase's Cleanup.
CleanedAllLater(c) ==
    \E j \in 1..Len(c) :
        /\ c[j] = Call("Cleanup", phases[1], "ok")
        /\ \A b \in 2..Len(phases) :
                \E k \in 1..(j - 1) : c[k] = Call("Cleanup", phases[b], "ok")

\* C4: the marker is removed only by a step of a finalizing Reconcile in
\* which every later phase's Cleanup returned success before; a Cleanup error
\* is the last call of its invocation, which reports a fault and leaves the
\* marker; every finalize pass starts at the last phase.
C4_MarkerOutlivesCleanup ==
    /\ [][MarkerRemoved =>
            /\ RanFinalizing /\ InFlight
            /\ calls' # calls /\ CleanedAllLater(calls')]_vars
    /\ [](RanFinalizing =>
            /\ Finished => calls # <<>>
            /\ calls # <<>> => calls[1].m = "Cleanup" /\ calls[1].p = phases[Len(phases)]
            /\ \A j \in Pos("Cleanup") :
                    calls[j].r = "err" =>
                        /\ j = Len(calls)
                        /\ result = "Errored"
                        /\ Marker(post))

\* A finalize pass stopped at the allocator's Cleanup error and left the
\* marker on the record.
C4_Witness ==
    /\ Finished /\ RanFinalizing
    /\ calls = <<Call("Cleanup", "ResourceAllocator", "err")>>
    /\ Marker(post) /\ rec = post.rec

\* C8: once the live record has seen as many fault-free Reconciles as there
\* are phases, every phase's IsUpdated holds.
C8_ConvergesWithinPhaseCount ==
    (Live(rec) /\ okRuns >= Len(phases)) => AllConverged(St(rec, external))

\* A live record has just been reconciled without fault for the time that
\* makes as many such invocations as there are phases.
C8_Witness ==
    /\ Live(rec) /\ okRuns = Len(phases)
    /\ Finished /\ RanLive /\ result = "Normal"

\* C9: when r.Get reports not-found the Reconcile returns the never-requeue
\* result without error; on any other Get error it returns the errored
\* result; in both cases no phase method is called and nothing is changed.
C9_GetFailure ==
    /\ getOutcome = "NotFound" => result = "Never" /\ calls = <<>> /\ post = pre
    /\ getOutcome = "Error" => result = "Errored" /\ calls = <<>> /\ post = pre

\* r.Get failed on a record whose phases are not converged.
C9_Witness ==
    /\ getOutcome = "Error" /\ pre.rec.exists /\ ~AllConverged(pre)
    /\ result = "Errored"

\* C10: on a record with deletion requested, the marker present and the
\* bucket absent, a Reconcile whose Cleanup calls hit no I/O error and whose
\* record nobody else writes meanwhile cleans every phase, removes the marker
\* and returns the normal result.
C10_FinalizeAbsentExternal ==
    (Finished /\ RanFinalizing /\ ~pre.external /\ ~interfered
        /\ faults \cap ({"Cleanup"} \X PhaseSet) = {}) =>
        /\ calls = <<Call("Cleanup", "ResourceAllocator", "ok"),
                     Call("Cleanup", "FinalizerRegistrar", "ok")>>
        /\ ~Marker(post)
        /\ ~post.external
        /\ result = "Normal"

\* Such a finalize pass has run.
C10_Witness ==
    /\ Finished /\ RanFinalizing /\ ~pre.external /\ ~interfered
    /\ ~Marker(post) /\ result = "Normal"

(***************************************************************************)
(* Properties of the validating handler                                    *)
(***************************************************************************)
\* The Handle call p has returned its response.
Done(p) == pc[p] = "done"

\* The Handle call p has panicked: it gives no response.
Panicked(p) == pc[p] = "panicked"

\* What the Validator returned to the Handle call p.
Returned(p) == vcalls[p][Len(vcalls[p])].ret

IsA(e, type) == \E i \in 1..Len(e.chain) : e.chain[i] = type

\* C5: for every operation kind, a nil Validator return is answered allowed,
\* an error that is a ValidationError is answered denied with the error's
\* message as the reason, and any other error is answered with status 500
\* carrying that error's message.
C5_Classification ==
    \A p \in Procs :
        (Done(p) /\ vcalls[p] # <<>>) =>
            LET e == Returned(p) IN
            /\ req[p].operation \in KnownOperations
            /\ e = Nil => resp[p].allowed /\ resp[p].code = 200
            /\ (e # Nil /\ IsA(e, "ValidationError")) =>
                    ~resp[p].allowed /\ resp[p].code = 403 /\ resp[p].msg = e.msg
            /\ (e # Nil /\ ~IsA(e, "ValidationError")) =>
                    ~resp[p].allowed /\ resp[p].code = StatusInternalServerError
                    /\ resp[p].msg = e.msg

\* A delete was denied because its Validator returned a ValidationError.
C5_Witness ==
    \E p \in Procs :
        /\ Done(p) /\ req[p].operation = "DELETE" /\ vcalls[p] # <<>>
        /\ Returned(p).chain # <<>>
        /\ Head(Returned(p).chain) = "ValidationError"
        /\ resp[p].code = 403

\* A payload the operation requires does not decode.
DecodeFails(r) ==
    \/ r.operation = "CREATE" /\ ~r.object.ok
    \/ r.operation = "UPDATE" /\ (~r.object.ok \/ ~r.oldObject.ok)
    \/ r.operation = "DELETE" /\ ~r.oldObject.ok

\* C6: when a payload the operation requires fails to decode, no Validator
\* method is called, and the response the call returns is an error with
\* status 400.
C6_DecodeFailure ==
    \A p \in Procs :
        DecodeFails(req[p]) =>
            /\ vcalls[p] = <<>>
            /\ Done(p) => ~resp[p].allowed /\ resp[p].code = StatusBadRequest

\* An update whose new object decoded and whose old object did not.
C6_Witness ==
    \E p \in Procs :
        /\ Done(p) /\ req[p].operation = "UPDATE"
        /\ req[p].object.ok /\ ~req[p].oldObject.ok
        /\ dcalls[p] = <<"Object", "OldObject">>

\* C7: a call whose operation is none of create, update, delete hands no
\* payload to the decoder, calls no Validator method, and is answered with
\* an error of status 400; it ends without an answer only when it found no
\* usable template object to copy on entry.
C7_UnknownOperation ==
    \A p \in Procs :
        req[p].operation \notin KnownOperations =>
            /\ dcalls[p] = <<>>
            /\ vcalls[p] = <<>>
            /\ Done(p) => ~resp[p].allowed /\ resp[p].code = StatusBadRequest
            /\ Panicked(p) => obj[p] = NoObject
            /\ pc[p] \in {"idle", "switch", "done", "panicked"}

\* A connect request with a decodable object was answered by a handler that
\* has no decoder.
C7_Witness ==
    \E p \in Procs :
        /\ handler.decoder = "nil"
        /\ Done(p) /\ req[p].operation = "CONNECT" /\ req[p].object.ok
        /\ resp[p].code = StatusBadRequest

\* The call p validates StaticAccessKey objects with the SAKeyValidator: the
\* templates it copied are StaticAccessKeys.
SAKeyCall(p) ==
    /\ handler.validator = "SAKeyValidator"
    /\ obj[p].kind = "StaticAccessKey"
    /\ req[p].operation = "UPDATE" => old[p].kind = "StaticAccessKey"

\* The object the decoder makes of payload raw in a copy of template tmpl.
Decoded(raw, tmpl) == [kind |-> tmpl.kind, said |-> raw.said]

\* C11: an update of a StaticAccessKey whose payloads decode is denied if and
\* only if the new ServiceAccountID differs from the old one; the denial is a
\* denied response, not a server error, whose reason is the validator's
\* message naming the old and then the new value; an unchanged field is
\* allowed.
C11_ImmutableServiceAccount ==
    \A p \in Procs :
        (SAKeyCall(p) /\ Done(p) /\ req[p].operation = "UPDATE"
            /\ req[p].object.ok /\ req[p].oldObject.ok) =>
            IF req[p].object.said # req[p].oldObject.said
            THEN /\ ~resp[p].allowed
                 /\ resp[p].code = 403
                 /\ resp[p].msg =
                        <<"binded service account must be immutable, was changed from ",
                          req[p].oldObject.said, " to ", req[p].object.said>>
            ELSE resp[p].allowed /\ resp[p].code = 200

\* An update from sa1 to sa2 was answered.
C11_Witness ==
    \E p \in Procs :
        /\ SAKeyCall(p) /\ Done(p) /\ req[p].operation = "UPDATE"
        /\ req[p].oldObject = [ok |-> TRUE, said |-> "sa1"]
        /\ req[p].object = [ok |-> TRUE, said |-> "sa2"]
        /\ ~resp[p].allowed

\* C15: a Handle call invokes at most one Validator method: ValidateCreation
\* with the decoded new object for a create, ValidateUpdate with the decoded
\* new object and then the decoded old object for an update, ValidateDeletion
\* with the decoded old object for a delete; the decoder is handed only the
\* payloads the operation prescribes.
C15_OneValidatorMethod ==
    \A p \in Procs :
        /\ Len(vcalls[p]) <= 1
        /\ vcalls[p] # <<>> =>
            LET c == vcalls[p][1]
                r == req[p]
            IN  /\ r.operation = "CREATE" =>
                    /\ c.m = "ValidateCreation"
                    /\ c.args = <<Decoded(r.object, obj[p])>>
                    /\ dcalls[p] = <<"Object">>
                /\ r.operation = "UPDATE" =>
                    /\ c.m = "ValidateUpdate"
                    /\ c.args = <<Decoded(r.object, obj[p]), Decoded(r.oldObject, old[p])>>
                    /\ dcalls[p] = <<"Object", "OldObject">>
                /\ r.operation = "DELETE" =>
                    /\ c.m = "ValidateDeletion"
                    /\ c.args = <<Decoded(r.oldObject, obj[p])>>
                    /\ dcalls[p] = <<"OldObject">>
                /\ r.operation \in KnownOperations

\* An update with different new and old objects reached its Validator.
C15_Witness ==
    \E p \in Procs :
        /\ Done(p) /\ req[p].operation = "UPDATE" /\ vcalls[p] # <<>>
        /\ req[p].object.said # req[p].oldObject.said

\* How Handle can end on request r when it runs alone on handler h, with no
\* Inject call alongside: the responses it can return, and NoResponse when it
\* can panic.
HandleAlone(h, r) ==
    LET o == DeepCopyObject(h.object)
        answers(m, args) ==
            {handleValidationError(e) : e \in ValidatorReturns(h.validator, m, args)}
        decode(raw, then) ==
            UNION { IF x = "panic" THEN {NoResponse}
                    ELSE IF x = "err" THEN {Errored(StatusBadRequest, DecodeErr(raw))}
                    ELSE then : x \in DecodeOutcomes(h.decoder, raw) }
    IN  IF Unusable(h.object) THEN {NoResponse}
        ELSE IF r.operation = "CREATE"
        THEN decode(r.object,
                    answers("ValidateCreation", <<DecodeInto(r.object, o)>>))
        ELSE IF r.operation = "UPDATE"
        THEN decode(r.object,
                decode(r.oldObject,
                    answers("ValidateUpdate",
                            <<DecodeInto(r.object, o), DecodeInto(r.oldObject, o)>>)))
        ELSE IF r.operation = "DELETE"
        THEN decode(r.oldObject,
                    answers("ValidateDeletion", <<DecodeInto(r.oldObject, o)>>))
        ELSE {Errored(StatusBadRequest,
                      Errorf(<<"invalid request operation: ", r.operation>>))}

\* C18: Handle calls running concurrently do not interfere: no step of any
\* call writes the handler (its template object included), every call works
\* on its own copies, and under every interleaving of calls a call during
\* which the handler is not reconfigured by an Inject call ends as it can end
\* when it runs alone on its own request.
C18_NoInterference ==
    /\ [][pc' # pc => handler' = handler /\ inject' = inject]_vars
    /\ [][\A p \in Procs :
            (pc'[p] # pc[p] /\ pc'[p] \in {"done", "panicked"} /\ ~reconfigured'[p]) =>
                resp'[p] \in HandleAlone(handler, req'[p])]_vars

\* An update that changes the ServiceAccountID was denied while another
\* update, which keeps it, was in flight with its objects decoded, and no
\* Inject call ran during either.
C18_Witness ==
    \E p, q \in Procs :
        /\ p # q
        /\ SAKeyCall(p) /\ SAKeyCall(q)
        /\ ~reconfigured[p] /\ ~reconfigured[q]
        /\ Done(p) /\ req[p].operation = "UPDATE" /\ resp[p].code = 403
        /\ pc[q] = "validate" /\ req[q].operation = "UPDATE"
        /\ obj[q].said = old[q].said

(***************************************************************************)
(* Further properties of the reconciler                                    *)
(***************************************************************************)
\* The last Reconcile loaded the record and walked the phases forward.
RanForward == getOutcome = "Found" /\ ~RanFinalizing

\* C12: in a forward walk a call that hits an I/O error returns it, the
\* first error is the last call of the invocation, the result is the errored
\* one, and no phase after the failing one has IsUpdated or Update called;
\* without an error the result is the normal one.
C12_FailFast ==
    RanForward =>
        /\ \A j \in 1..Len(calls) :
                /\ <<calls[j].m, calls[j].p>> \in faults => calls[j].r = "err"
                /\ calls[j].r = "err" =>
                    /\ j = Len(calls)
                    /\ result = "Errored"
                    /\ \A k \in 1..Len(calls) : Idx(calls[k].p) <= Idx(calls[j].p)
        /\ result = "Errored" <=> \E j \in 1..Len(calls) : calls[j].r = "err"
        /\ Finished => result \in {"Errored", "Normal"}

\* The registrar's Update failed on a record whose bucket is missing too.
C12_Witness ==
    /\ Finished /\ RanLive /\ ~pre.external
    /\ calls = <<Call("IsUpdated", "FinalizerRegistrar", "false"),
                 Call("Update", "FinalizerRegistrar", "err")>>
    /\ result = "Errored"

\* C13: on a live resource ResourceAllocator.Update is called only after
\* FinalizerRegistrar.IsUpdated returned true or FinalizerRegistrar.Update
\* succeeded in the same invocation; and whenever the bucket comes into
\* existence the record carries the finalizer marker.
C13_MarkerBeforeAllocation ==
    /\ [](RanLive =>
            \A j \in Pos("Update") :
                calls[j].p = "ResourceAllocator" =>
                    \E k \in 1..(j - 1) :
                        \/ calls[k] = Call("IsUpdated", "FinalizerRegistrar", "true")
                        \/ calls[k] = Call("Update", "FinalizerRegistrar", "ok"))
    /\ [][(~external /\ external') => Marker(St(rec', external'))]_vars

\* One invocation registered the finalizer and then allocated the bucket.
C13_Witness ==
    /\ Finished /\ RanLive /\ ~Marker(pre) /\ ~pre.external
    /\ Marker(St(rec, external)) /\ external
    /\ \E j \in Pos("Update") : calls[j] = Call("Update", "ResourceAllocator", "ok")

\* C14: a Reconcile of a live resource that returns the normal result has
\* asked every phase, and every phase that answered not converged had its
\* Update called, with success, right after.
C14_NoApplySkipped ==
    (RanLive /\ result = "Normal") =>
        \A i \in 1..Len(phases) :
            \E j \in Pos("IsUpdated") :
                /\ calls[j].p = phases[i]
                /\ \/ calls[j].r = "true"
                   \/ /\ calls[j].r = "false"
                      /\ j < Len(calls)
                      /\ calls[j + 1] = Call("Update", phases[i], "ok")

\* An invocation found the marker in place from an earlier one and allocated
\* the bucket that the earlier one had not.
C14_Witness ==
    /\ Finished /\ RanLive /\ result = "Normal"
    /\ calls = <<Call("IsUpdated", "FinalizerRegistrar", "true"),
                 Call("IsUpdated", "ResourceAllocator", "false"),
                 Call("Update", "ResourceAllocator", "ok")>>

\* C16: a Reconcile of a live resource whose phases all answer converged
\* calls no Update and no Cleanup, none of its steps writes the record or the
\* bucket, and it returns the normal result; when nobody else wrote the
\* record meanwhile the state it leaves is the one it found, which is again
\* such a state.
C16_ConvergedIsNoOp ==
    /\ []((RanLive /\ AllConverged(pre)
                /\ faults \cap ({"IsUpdated"} \X PhaseSet) = {}) =>
            /\ Pos("Update") = {}
            /\ Pos("Cleanup") = {}
            /\ Finished =>
                /\ Len(calls) = Len(phases)
                /\ result = "Normal"
                /\ ~interfered => post = pre /\ AllConverged(post))
    /\ [][(InFlight /\ calls' # calls /\ Pos("Update") = {} /\ Pos("Cleanup") = {}
            /\ calls'[Len(calls')].m = "IsUpdated") =>
                rec' = rec /\ external' = external]_vars

\* A converged live record has been reconciled again and again.
C16_Witness ==
    /\ Finished /\ RanLive /\ AllConverged(pre) /\ result = "Normal"
    /\ okRuns = MaxRuns
    /\ rec = pre.rec /\ external = pre.external

\* C17: a Reconcile that finds deletion requested and the marker present
\* calls Cleanup methods only, at most one per phase; every other Reconcile
\* calls no Cleanup.
C17_NoMixing ==
    /\ RanFinalizing =>
            /\ Finished => calls # <<>> /\ result \in {"Normal", "Errored"}
            /\ Len(calls) <= Len(phases)
            /\ \A j \in 1..Len(calls) : calls[j].m = "Cleanup"
            /\ \A j, k \in 1..Len(calls) : calls[j].p = calls[k].p => j = k
    /\ ~RanFinalizing => Pos("Cleanup") = {}

\* A finalize pass deleted the bucket, removed the marker and ended.
C17_Witness ==
    /\ Finished /\ RanFinalizing /\ pre.external
    /\ ~post.external /\ ~Marker(post)
    /\ Len(calls) = Len(phases)

(***************************************************************************)
(* Properties of the SAKeyValidator                                        *)
(***************************************************************************)
\* C19: when any object handed to a SAKeyValidator method is not a
\* StaticAccessKey, the method returns an error that is not a
\* ValidationError and the classification is a server error, not a denial;
\* creation and deletion of a StaticAccessKey are allowed.
C19_WrongTypeIsServerError ==
    \A p \in Procs :
        Done(p) =>
            LET c == vcalls[p][1] IN
            /\ (\E i \in 1..Len(c.args) : c.args[i].kind # "StaticAccessKey") =>
                    /\ c.ret # Nil
                    /\ ~IsA(c.ret, "ValidationError")
                    /\ ~resp[p].allowed
                    /\ resp[p].code = StatusInternalServerError
            /\ ((\A i \in 1..Len(c.args) : c.args[i].kind = "StaticAccessKey")
                    /\ c.m \in {"ValidateCreation", "ValidateDeletion"}) =>
                    resp[p].allowed /\ resp[p].code = 200

\* ValidateUpdate got a StaticAccessKey as the new object and an object of
\* another kind, with another ServiceAccountID, as the old one.
C19_Witness ==
    \E p \in Procs :
        /\ Done(p) /\ vcalls[p][1].m = "ValidateUpdate"
        /\ obj[p].kind = "StaticAccessKey" /\ old[p].kind = "Other"
        /\ obj[p].said # old[p].said
        /\ resp[p].code = StatusInternalServerError

====
